---- MODULE Spec2Model ----
(***************************************************************************)
(* Model of src/app.py: a Flask backend that issues HS256 JWTs at /login,  *)
(* checks them at /verify and guards /protected with token_required.       *)
(*                                                                         *)
(* Time is counted in clock ticks, TicksPerSec ticks to the second, so     *)
(* that the truncation of a datetime to whole epoch seconds done by the    *)
(* JWT encoder is visible.  Text is a sequence of pieces, the piece " "    *)
(* being whitespace, so that str.strip() and str.split() do real work.     *)
(***************************************************************************)
EXTENDS Integers, Sequences, FiniteSets, TLC

VARIABLES
    env,        \* the environment variables the process was started with
    clock,      \* the time of the system clock, in ticks
    wire,       \* for each user, the token the user's client holds: the one
                \* the latest successful /login of the user returned
    last,       \* the request and the response of the exchange the latest
                \* step completed, NoExchange if it completed none
    request,    \* for each worker slot, the request object of the /protected
                \* request being handled in it
    log         \* the lines log_request has written for successful logins

vars == <<env, clock, wire, last, request, log>>

----------------------------------------------------------------------------
(* Bounds of the model *)

TicksPerSec == 2

MaxFine == 1

MaxStep == 1

NumSlots == 2

----------------------------------------------------------------------------
(* Text *)

SP == " "

Text(w) == <<w>>

RECURSIVE lstrip(_)
lstrip(s) == IF s # <<>> /\ Head(s) = SP THEN lstrip(Tail(s)) ELSE s

RECURSIVE rstrip(_)
rstrip(s) == IF s # <<>> /\ s[Len(s)] = SP THEN rstrip(SubSeq(s, 1, Len(s) - 1)) ELSE s

strip(s) == rstrip(lstrip(s))

----------------------------------------------------------------------------
(* JSON values of a request body and Python's None *)

None == [type |-> "none"]

JNull == [type |-> "null"]

JStr(text) == [type |-> "str", str |-> text]

JNum(number) == [type |-> "num", num |-> number]

JTok(token) == [type |-> "jwt", jwt |-> token]

IsStr(v) == v.type = "str"

\* Python truth value of a JSON value held in a dict
Truthy(v) ==
    CASE v.type = "str" -> v.str # <<>>
      [] v.type = "num" -> v.num # 0
      [] v.type = "jwt" -> TRUE
      [] OTHER -> FALSE

\* request.get_json(): the body is unparseable, or one of the JSON values
\* null, a list of items, an object with fields
BadJSON == [kind |-> "invalid"]

NullBody == [kind |-> "null"]

ListBody(values) == [kind |-> "list", items |-> values]

Object(members) == [kind |-> "object", fields |-> members]

\* `not data` on the value get_json returned
Falsy(data) ==
    CASE data.kind = "null" -> TRUE
      [] data.kind = "list" -> data.items = {}
      [] data.kind = "object" -> DOMAIN data.fields = {}
      [] OTHER -> FALSE

\* data.get(key, default): only a dict has it
get(data, key, default) ==
    IF key \in DOMAIN data.fields THEN data.fields[key] ELSE default

----------------------------------------------------------------------------
(* Configuration *)

DefaultSecret == "super-secret-key-change-in-production"

getenv(name, default) == IF name \in DOMAIN env THEN env[name] ELSE default

SECRET_KEY == getenv("SECRET_KEY", DefaultSecret)

\* the lifetime as it would be if it were read from the environment
JWT_EXPIRATION_HOURS_env == getenv("JWT_EXPIRATION_HOURS", 24)

JWT_EXPIRATION_HOURS == 24

Environments ==
    { <<>>,
      [SECRET_KEY |-> "env-secret", JWT_EXPIRATION_HOURS |-> 1] }

Keys == {DefaultSecret, "env-secret"}

USERS ==
    (Text("admin") :> [username |-> Text("admin"), password |-> Text("password123"),
                       email |-> Text("admin@example.com")])
    @@
    (Text("user") :> [username |-> Text("user"), password |-> Text("password123"),
                      email |-> Text("user@example.com")])

----------------------------------------------------------------------------
(* Clock *)

\* datetime.utcnow(), in ticks
utcnow == clock

\* timedelta(hours=h), in ticks
timedelta(h) == h * 3600 * TicksPerSec

\* the encoder's timegm(dt.utctimetuple()): whole epoch seconds
timegm(t) == t \div TicksPerSec

\* the instants the clock is observed at: the first ticks after the start
\* and the ticks around one token lifetime after the start
ClockPoints ==
    (0 .. MaxFine)
    \cup ((timedelta(JWT_EXPIRATION_HOURS) - MaxFine) .. (timedelta(JWT_EXPIRATION_HOURS) + MaxFine))

----------------------------------------------------------------------------
(* Token service *)

\* HMAC-SHA256 as an ideal MAC: two tags are equal exactly when the key and
\* the signed message are
HS256(secret, message) == [key |-> secret, msg |-> message]

\* jwt.encode(payload, key, algorithm='HS256'): datetimes become whole epoch
\* seconds, the claims are signed
jwt_encode(payload, key) ==
    LET claims == [username |-> payload.username,
                   iat |-> timegm(payload.iat),
                   exp |-> timegm(payload.exp)]
    IN  [payload |-> claims, sig |-> HS256(key, claims)]

\* jwt.decode accepting a token in the instant of its expiry
jwt_decode_late(tok, key, now) ==
    IF tok.sig # HS256(key, tok.payload)
    THEN [error |-> "InvalidSignatureError"]
    ELSE IF tok.payload.exp * TicksPerSec < now
         THEN [error |-> "ExpiredSignatureError"]
         ELSE tok.payload

\* jwt.decode(token, key, algorithms=['HS256']) at time now (ticks): the
\* signature is checked first, then the expiry against the current time
jwt_decode(tok, key, now) ==
    IF tok.sig # HS256(key, tok.payload)
    THEN [error |-> "InvalidSignatureError"]
    ELSE IF tok.payload.exp * TicksPerSec <= now
         THEN [error |-> "ExpiredSignatureError"]
         ELSE tok.payload

\* generate_token without the lifetime added to the expiry
generate_token_no_lifetime(username, t1, t2) ==
    jwt_encode([username |-> username, iat |-> t1, exp |-> t2], SECRET_KEY)

\* generate_token(username), its two readings of the clock being t1 and t2
generate_token(username, t1, t2) ==
    LET payload == [username |-> username,
                    iat |-> t1,
                    exp |-> t2 + timedelta(JWT_EXPIRATION_HOURS)]
    IN  jwt_encode(payload, SECRET_KEY)

\* verify_token swallowing ExpiredSignatureError into a success
verify_token_no_expiry(token, now) ==
    IF token.type # "jwt"
    THEN None
    ELSE IF token.jwt.sig # HS256(SECRET_KEY, token.jwt.payload)
         THEN None
         ELSE token.jwt.payload

\* verify_token(token) at time now; token is whatever value the caller
\* passes, and anything that is not a JWT string fails to decode
verify_token(token, now) ==
    IF token.type # "jwt"
    THEN None
    ELSE LET payload == jwt_decode(token.jwt, SECRET_KEY, now)
         IN  IF "error" \in DOMAIN payload THEN None ELSE payload

----------------------------------------------------------------------------
(* Authorization header *)

Space == [type |-> "sp"]

Word(letters) == [type |-> "word", word |-> letters]

\* str.lower() on the scheme names that occur
LowerCase(w) ==
    CASE w = "Bearer" -> "bearer"
      [] w = "BEARER" -> "bearer"
      [] w = "Basic" -> "basic"
      [] OTHER -> w

lower(piece) == IF piece.type = "word" THEN Word(LowerCase(piece.word)) ELSE piece

\* str.split(): the pieces between runs of whitespace
split(s) == SelectSeq(s, LAMBDA piece : piece # Space)

\* get_token_from_header without the test of the scheme
get_token_any_scheme(headers) ==
    IF "Authorization" \notin DOMAIN headers
    THEN None
    ELSE LET auth_header == headers["Authorization"]
             parts == split(auth_header)
         IN  IF auth_header = <<>>
             THEN None
             ELSE IF Len(parts) = 2 THEN parts[2] ELSE None

\* get_token_from_header(): the second of exactly two parts whose first is
\* "bearer" in any case, else None
get_token_from_header(headers) ==
    IF "Authorization" \notin DOMAIN headers
    THEN None
    ELSE LET auth_header == headers["Authorization"]
             parts == split(auth_header)
         IN  IF auth_header = <<>>
             THEN None
             ELSE IF Len(parts) = 2 /\ lower(parts[1]) = Word("bearer")
                  THEN parts[2]
                  ELSE None

----------------------------------------------------------------------------
(* Responses *)

Response(code, body) == [status |-> code, json |-> body]

NoContent == Response(204, <<>>)

InternalError == Response(500, [success |-> FALSE, message |-> "Internal server error"])

\* login() for a request with the given method and body, generate_token
\* reading the clock at t1 and t2
login_response(method, data, t1, t2) ==
    IF method = "OPTIONS" THEN NoContent
    ELSE IF data.kind = "invalid" THEN InternalError
    ELSE IF Falsy(data)
    THEN Response(400, [success |-> FALSE, message |-> "Request body must be JSON"])
    ELSE IF data.kind # "object" THEN InternalError
    ELSE LET u == get(data, "username", JStr(<<>>))
             password == get(data, "password", JStr(<<>>))
         IN  IF ~IsStr(u) THEN InternalError
             ELSE LET username == strip(u.str)
                  IN  IF username = <<>> \/ ~Truthy(password)
                      THEN Response(400, [success |-> FALSE,
                                          message |-> "Username and password are required"])
                      ELSE IF \/ username \notin DOMAIN USERS
                              \/ JStr(USERS[username].password) # password
                      THEN Response(401, [success |-> FALSE,
                                          message |-> "Invalid username or password"])
                      ELSE LET token == generate_token(username, t1, t2)
                           IN  IF token = None
                               THEN Response(500, [success |-> FALSE,
                                                   message |-> "Failed to generate token"])
                               ELSE Response(200, [success |-> TRUE,
                                                   message |-> "Login successful",
                                                   token |-> token,
                                                   username |-> username,
                                                   expiresIn |-> JWT_EXPIRATION_HOURS * 3600])

\* verify() for a request with the given method and body at time now
verify_response(method, data, now) ==
    IF method = "OPTIONS" THEN NoContent
    ELSE IF data.kind = "invalid" THEN InternalError
    ELSE IF \/ Falsy(data)
            \/ data.kind = "list" /\ JStr(Text("token")) \notin data.items
            \/ data.kind = "object" /\ "token" \notin DOMAIN data.fields
    THEN Response(400, [success |-> FALSE, valid |-> FALSE, message |-> "Token is required"])
    ELSE IF data.kind # "object" THEN InternalError
    ELSE LET token == data.fields["token"]
             payload == verify_token(token, now)
         IN  IF payload # None
             THEN Response(200, [success |-> TRUE, valid |-> TRUE,
                                 username |-> payload.username,
                                 iat |-> payload.iat,
                                 exp |-> payload.exp])
             ELSE Response(401, [success |-> FALSE, valid |-> FALSE,
                                 message |-> "Token is invalid or expired"])

----------------------------------------------------------------------------
(* What clients send *)

Methods == {"POST", "OPTIONS"}

\* the claims of a token with one field changed, the signature kept
alter_username(tok) ==
    [tok EXCEPT !.payload.username =
        IF @ = Text("admin") THEN Text("user") ELSE Text("admin")]

extend_expiry(tok) ==
    [tok EXCEPT !.payload.exp = @ + JWT_EXPIRATION_HOURS * 3600]

\* the signature of a token changed, the claims kept
alter_signature(tok) == [tok EXCEPT !.sig = [garbled |-> @]]

\* a token made outside the server at time now and signed with key
forge(name, key, now) ==
    jwt_encode([username |-> name, iat |-> now,
                exp |-> now + timedelta(JWT_EXPIRATION_HOURS)], key)

\* the tokens a client who knows the keys in keys can present
Held == { wire[u] : u \in { v \in DOMAIN wire : wire[v] # None } }

Presentable(keys) ==
    Held
    \cup { alter_username(tok) : tok \in Held }
    \cup { extend_expiry(tok) : tok \in Held }
    \cup { alter_signature(tok) : tok \in Held }
    \cup { forge(name, key, clock) : name \in {Text("root"), Text("admin")},
                                         key \in keys }

LoginBodies ==
    { BadJSON, NullBody, Object(<<>>), ListBody({JNum(1)}),
      Object([username |-> JStr(Text("admin"))]),
      Object([username |-> JStr(Text("admin")), password |-> JStr(Text("password123"))]),
      Object([username |-> JStr(Text("user")), password |-> JStr(Text("password123"))]),
      Object([username |-> JStr(<<SP, "admin", SP>>), password |-> JStr(Text("password123"))]),
      Object([username |-> JStr(Text("admin")), password |-> JStr(Text("wrong"))]),
      Object([username |-> JStr(Text("admin")), password |-> JStr(<<>>)]),
      Object([username |-> JStr(Text("admin")), password |-> JNum(123)]),
      Object([username |-> JStr(Text("nobody")), password |-> JStr(Text("password123"))]),
      Object([username |-> JStr(<<SP, SP>>), password |-> JStr(Text("password123"))]),
      Object([username |-> JNum(123), password |-> JStr(Text("password123"))]),
      Object([username |-> JNull, password |-> JStr(Text("password123"))]) }

VerifyBodies(keys) ==
    { BadJSON, NullBody, Object(<<>>), ListBody({JNum(1)}), ListBody({JStr(Text("token"))}),
      Object([username |-> JStr(Text("admin"))]),
      Object([token |-> JNum(123)]),
      Object([token |-> JStr(<<>>)]) }
    \cup { Object([token |-> JTok(tok)]) : tok \in Presentable(keys) }

NoHeaders == <<>>

Authorization(value) == [Authorization |-> value]

Headers(keys) ==
    { NoHeaders, Authorization(<<>>), Authorization(<<Word("Bearer")>>),
      Authorization(<<Word("Bearer"), Space, Word("garbage")>>) }
    \cup { Authorization(<<Word("Bearer"), Space, JTok(tok)>>) : tok \in Presentable(keys) }
    \cup { Authorization(<<Word("BEARER"), Space, Space, JTok(tok)>>) : tok \in Held }
    \cup { Authorization(<<Word("Basic"), Space, JTok(tok)>>) : tok \in Held }
    \cup { Authorization(<<Word("Bearer"), Space, JTok(tok), Space, Word("x")>>) : tok \in Held }

----------------------------------------------------------------------------
(* State *)

Slots == 1 .. NumSlots

Idle == [pc |-> "idle", method |-> "", headers |-> NoHeaders, username |-> None]

\* the request object of a request that has just arrived: no username attribute
NewRequest(verb, hdrs) ==
    [pc |-> "decorated", method |-> verb, headers |-> hdrs, username |-> None]

\* the username kept in one place shared by all requests
set_username_shared(ctx, r, name) == [q \in DOMAIN ctx |-> [ctx[q] EXCEPT !.username = JStr(name)]]

\* request.username = username, on the request object of slot r
set_username(ctx, r, name) == [ctx EXCEPT ![r].username = JStr(name)]

\* log_request(endpoint, method, username, status_code) at time now.  Of the
\* log only the latest line of a successful login of each user is kept
log_request(lines, path, verb, name, status_code, now) ==
    { line \in lines : line.username # name }
    \cup {[endpoint |-> path, method |-> verb, username |-> name,
           status |-> status_code, timestamp |-> now]}

Exchange(path, verb, sent, resp) ==
    [route |-> path, method |-> verb, input |-> sent,
     status |-> resp.status, json |-> resp.json]

NoExchange == [route |-> "none", method |-> "", input |-> <<>>, status |-> 0, json |-> <<>>]

Init ==
    /\ env \in Environments
    /\ clock = 0
    /\ wire = [u \in DOMAIN USERS |-> None]
    /\ last = NoExchange
    /\ request = [r \in Slots |-> Idle]
    /\ log = {}

----------------------------------------------------------------------------
(* Operations *)

\* time passes; while a /protected request is being handled, at most
\* MaxStep ticks in one go.  The exchange of an earlier instant is no longer
\* the latest one
Advance ==
    /\ \E t \in ClockPoints :
           /\ t > clock
           /\ (\E r \in Slots : request[r].pc # "idle") => t <= clock + MaxStep
           /\ clock' = t
    /\ last' = NoExchange
    /\ UNCHANGED <<env, wire, request, log>>

\* GET /health
health ==
    /\ last' = Exchange("/health", "GET", <<>>,
                        Response(200, [success |-> TRUE,
                                       message |-> "Authentication Lab Backend is running",
                                       timestamp |-> utcnow]))
    /\ UNCHANGED <<env, clock, wire, request, log>>

\* /login; the clock advances by d between the two readings of
\* generate_token.  The client of the user keeps the token, and log_request
\* writes the line of the successful login
login(method, data) ==
    \E d \in 0 .. MaxStep :
        LET t1 == utcnow
            t2 == t1 + d
            resp == login_response(method, data, t1, t2)
        IN  /\ t2 \in ClockPoints
            /\ IF resp.status = 200
               THEN /\ wire' = [wire EXCEPT ![resp.json.username] = resp.json.token]
                    /\ log' = log_request(log, "/login", method, resp.json.username, 200, t2)
                    /\ clock' = t2
               ELSE /\ d = 0
                    /\ UNCHANGED <<wire, log, clock>>
            /\ last' = Exchange("/login", method, data, resp)
            /\ UNCHANGED <<env, request>>

\* /verify
verify(method, data) ==
    /\ last' = Exchange("/verify", method, data, verify_response(method, data, utcnow))
    /\ UNCHANGED <<env, clock, wire, request, log>>

\* /protected, first half: the wrapper of token_required, in slot r
decorated(r, method, headers) ==
    /\ request[r].pc = "idle"
    /\ LET token == get_token_from_header(headers)
           payload == verify_token(token, utcnow)
       IN  IF token = None
           THEN /\ last' = Exchange("/protected", method, headers,
                                    Response(401, [success |-> FALSE,
                                        message |-> "Missing or invalid authorization header"]))
                /\ UNCHANGED request
           ELSE IF payload = None
           THEN /\ last' = Exchange("/protected", method, headers,
                                    Response(401, [success |-> FALSE,
                                        message |-> "Token expired or invalid"]))
                /\ UNCHANGED request
           ELSE /\ request' =
                      [set_username([request EXCEPT ![r] = NewRequest(method, headers)],
                                    r, payload.username)
                       EXCEPT ![r].pc = "handler"]
                /\ last' = NoExchange
    /\ UNCHANGED <<env, clock, wire, log>>

\* /protected, second half: the wrapped handler protected(), in slot r
protected(r) ==
    /\ request[r].pc = "handler"
    /\ LET ctx == request[r]
           resp == IF ctx.method = "OPTIONS" THEN NoContent
                   ELSE IF ctx.username = None THEN InternalError
                   ELSE Response(200, [success |-> TRUE,
                                       message |-> "Access granted to protected endpoint",
                                       username |-> ctx.username.str,
                                       timestamp |-> utcnow])
       IN  last' = Exchange("/protected", ctx.method, ctx.headers, resp)
    /\ request' = [request EXCEPT ![r] = Idle]
    /\ UNCHANGED <<env, clock, wire, log>>

\* the bodies of well-formed /login requests
Credentials ==
    { Object([username |-> JStr(Text("admin")), password |-> JStr(Text("password123"))]),
      Object([username |-> JStr(Text("user")), password |-> JStr(Text("password123"))]),
      Object([username |-> JStr(Text("admin")), password |-> JStr(Text("wrong"))]) }

TokenBodies(keys) == { Object([token |-> JTok(tok)]) : tok \in Presentable(keys) }

Bearer(tokens) == { Authorization(<<Word("Bearer"), Space, JTok(tok)>>) : tok \in tokens }

\* the four routes, one /protected request at a time
Next ==
    \/ Advance
    \/ health
    \/ \E data \in Credentials : login("POST", data)
    \/ \E data \in TokenBodies(Keys) : verify("POST", data)
    \/ \E headers \in Bearer(Presentable(Keys)) : decorated(1, "GET", headers)
    \/ protected(1)

Spec == Init /\ [][Next]_vars

\* /login, /verify and /health with every kind of request body
NextApi ==
    \/ Advance
    \/ health
    \/ \E method \in Methods, data \in LoginBodies : login(method, data)
    \/ \E method \in Methods, data \in VerifyBodies(Keys) : verify(method, data)

SpecApi == Init /\ [][NextApi]_vars

\* /protected with every kind of Authorization header
NextGuard ==
    \/ Advance
    \/ \E data \in Credentials : login("POST", data)
    \/ \E method \in {"GET", "OPTIONS"}, headers \in Headers(Keys) : decorated(1, method, headers)
    \/ protected(1)

SpecGuard == Init /\ [][NextGuard]_vars

\* /protected requests of the users handled concurrently
NextConcurrent ==
    \/ Advance
    \/ \E data \in Credentials : login("POST", data)
    \/ \E r \in Slots, headers \in Bearer(Held) : decorated(r, "GET", headers)
    \/ \E r \in Slots : protected(r)

SpecConcurrent == Init /\ [][NextConcurrent]_vars

\* clients that do not know the shared secret
NextClient ==
    \/ Advance
    \/ \E data \in Credentials : login("POST", data)
    \/ \E headers \in Bearer(Presentable(Keys \ {SECRET_KEY})) : decorated(1, "GET", headers)
    \/ protected(1)

SpecClient == Init /\ [][NextClient]_vars

----------------------------------------------------------------------------
(* Properties *)

Lifetime == timedelta(JWT_EXPIRATION_HOURS)

\* C1: the token a successful /login has just returned is accepted by
\* verify_token at the time of its issuance, and the claims it yields carry
\* the username it was issued for.
C1_IssuedTokenVerifies ==
    (last.route = "/login" /\ last.status = 200) =>
        LET payload == verify_token(JTok(last.json.token), clock)
        IN  payload # None /\ payload.username = last.json.username

C1_Witness ==
    /\ last.route = "/login" /\ last.status = 200
    /\ last.json.username = Text("user")

\* C2: whatever requests came before, verify_token accepts a token exactly
\* when its signature is the one the shared secret gives for its claims and
\* the clock is strictly before its expiry; tokens altered after signing,
\* tokens signed with another secret and tokens whose expiry has been reached
\* are rejected, and /verify answers accordingly.
C2_ValidIffSignedAndFresh ==
    /\ \A tok \in Presentable(Keys) :
           (verify_token(JTok(tok), clock) # None)
               <=> /\ tok.sig = HS256(SECRET_KEY, tok.payload)
                   /\ clock < tok.payload.exp * TicksPerSec
    /\ \A tok \in Held :
           /\ verify_token(JTok(alter_username(tok)), clock) = None
           /\ verify_token(JTok(extend_expiry(tok)), clock) = None
           /\ verify_token(JTok(alter_signature(tok)), clock) = None
           /\ clock >= tok.payload.exp * TicksPerSec => verify_token(JTok(tok), clock) = None
    /\ \A key \in Keys \ {SECRET_KEY} :
           verify_token(JTok(forge(Text("admin"), key, clock)), clock) = None
    /\ (last.route = "/verify") =>
           LET tok == last.input.fields["token"].jwt
           IN  (last.status = 200)
                   <=> /\ tok.sig = HS256(SECRET_KEY, tok.payload)
                       /\ clock < tok.payload.exp * TicksPerSec

C2_Witness ==
    /\ last.route = "/verify" /\ last.status = 401
    /\ last.input.fields["token"].jwt \in Held
    /\ clock = last.input.fields["token"].jwt.payload.exp * TicksPerSec

\* C3: a POST /login with a JSON body is answered 400 when username or
\* password is missing or empty, else 401 when the username is unknown or the
\* password differs from the stored one, else 200 with a token whose username
\* claim is the submitted username; only a 200 carries a token.
C3_LoginCases ==
    (last.route = "/login" /\ last.method = "POST" /\ last.input.kind # "invalid") =>
        LET data == last.input
            has(key) == data.kind = "object" /\ key \in DOMAIN data.fields
            empty(key) == data.fields[key] \in {JNull, JStr(<<>>)}
            submitted == data.fields["username"]
        IN  /\ IF ~has("username") \/ ~has("password") \/ empty("username") \/ empty("password")
               THEN last.status = 400
               ELSE IF \/ ~IsStr(submitted)
                       \/ submitted.str \notin DOMAIN USERS
                       \/ JStr(USERS[submitted.str].password) # data.fields["password"]
               THEN last.status = 401
               ELSE /\ last.status = 200
                    /\ last.json.token.payload.username = submitted.str
            /\ ("token" \in DOMAIN last.json) <=> (last.status = 200)

\* C5: a client input error on POST /login is answered 400 and never 500: a
\* body that is not JSON and a username or password that is not a string
\* are answered 400.
C5_LoginInputErrorsAre400 ==
    (last.route = "/login" /\ last.method = "POST") =>
        /\ last.status # 500
        /\ last.input.kind = "invalid" => last.status = 400
        /\ (/\ last.input.kind = "object"
            /\ \E key \in DOMAIN last.input.fields : ~IsStr(last.input.fields[key]))
               => last.status = 400

\* C6: a POST /verify is answered 400 when the body has no token field, 401
\* with valid = false when verify_token rejects the token, and 200 with
\* valid = true and the claims of the token when verify_token accepts it.
C6_VerifyCases ==
    (last.route = "/verify" /\ last.method = "POST") =>
        LET data == last.input
        IN  IF ~(data.kind = "object" /\ "token" \in DOMAIN data.fields)
            THEN last.status = 400
            ELSE LET payload == verify_token(data.fields["token"], clock)
                 IN  IF payload = None
                     THEN last.status = 401 /\ last.json.valid = FALSE
                     ELSE /\ last.status = 200 /\ last.json.valid = TRUE
                          /\ last.json.username = payload.username
                          /\ last.json.iat = payload.iat
                          /\ last.json.exp = payload.exp

C8_ExpiryIsIssuePlusLifetime ==
    (last.route = "/login" /\ last.status = 200) =>
        LET claims == last.json.token.payload
        IN  /\ claims.exp - claims.iat = JWT_EXPIRATION_HOURS * 3600
            /\ claims.exp - claims.iat = last.json.expiresIn

\* C4: the handler of /protected runs only for a request whose
\* Authorization header is "Bearer <token>" with a token verify_token
\* accepts; any other request is answered 401 and the handler does not run;
\* when the handler has run the answer is 200 with the username claim of the
\* presented token.
C4_GuardedHandler ==
    [][ LET parts(headers) == split(headers["Authorization"])
            bearer(headers) ==
                /\ "Authorization" \in DOMAIN headers
                /\ Len(parts(headers)) = 2
                /\ parts(headers)[1] \in {Word("Bearer"), Word("bearer"), Word("BEARER")}
            good(headers) ==
                bearer(headers) /\ verify_token(parts(headers)[2], clock) # None
        IN  /\ \A r \in Slots :
                (request[r].pc = "idle" /\ request'[r].pc = "handler")
                    => good(request'[r].headers)
            /\ (last'.route = "/protected" /\ last' # last /\ request' = request)
                    => last'.status = 401 /\ ~good(last'.input)
            /\ \A r \in Slots :
                (request[r].pc = "handler" /\ request'[r].pc = "idle")
                    => /\ last'.route = "/protected"
                       /\ last'.input = request[r].headers
                       /\ last'.status = 200
                       /\ last'.json.username = parts(request[r].headers)[2].jwt.payload.username
      ]_vars

\* C4, amended: as C4, but when the handler has run the answer is 200 with
\* the username claim of the presented token for a GET request and 204
\* without a body for an OPTIONS request.
C4_GuardedHandlerByMethod ==
    [][ LET parts(headers) == split(headers["Authorization"])
            bearer(headers) ==
                /\ "Authorization" \in DOMAIN headers
                /\ Len(parts(headers)) = 2
                /\ parts(headers)[1] \in {Word("Bearer"), Word("bearer"), Word("BEARER")}
            good(headers) ==
                bearer(headers) /\ verify_token(parts(headers)[2], clock) # None
        IN  /\ \A r \in Slots :
                (request[r].pc = "idle" /\ request'[r].pc = "handler")
                    => good(request'[r].headers)
            /\ (last'.route = "/protected" /\ last' # last /\ request' = request)
                    => last'.status = 401 /\ ~good(last'.input)
            /\ \A r \in Slots :
                (request[r].pc = "handler" /\ request'[r].pc = "idle")
                    => /\ last'.route = "/protected"
                       /\ last'.input = request[r].headers
                       /\ IF request[r].method = "OPTIONS"
                          THEN last'.status = 204 /\ last'.json = <<>>
                          ELSE /\ last'.status = 200
                               /\ last'.json.username =
                                      parts(request[r].headers)[2].jwt.payload.username
      ]_vars

C4_Witness ==
    /\ last.route = "/protected" /\ last.method = "OPTIONS" /\ last.status = 204
    /\ last.input["Authorization"][1] = Word("BEARER")

\* C9: with /protected requests of different users in progress at once,
\* every request in progress holds the username of its own token, every
\* answer reports the username of the token of its own request, and a slot
\* without a request holds no username.
C9_RequestScoped ==
    /\ \A r \in Slots :
           IF request[r].pc = "handler"
           THEN request[r].username =
                    JStr(request[r].headers["Authorization"][3].jwt.payload.username)
           ELSE request[r].username = None
    /\ (last.route = "/protected" /\ last.status = 200)
           => last.json.username = last.input["Authorization"][3].jwt.payload.username

C9_Witness ==
    /\ last.route = "/protected" /\ last.status = 200
    /\ \E r \in Slots :
           /\ request[r].pc = "handler"
           /\ request[r].username # JStr(last.json.username)

\* C10: for clients that do not know the shared secret, whenever /protected
\* answers 200 with username u, u is a key of the credential store and a
\* /login of u succeeded less than one token lifetime before the answer.
C10_LoginWithinLifetimeOfAnswer ==
    (last.route = "/protected" /\ last.status = 200) =>
        /\ last.json.username \in DOMAIN USERS
        /\ \E line \in log :
               /\ line.username = last.json.username
               /\ line.timestamp <= last.json.timestamp
               /\ last.json.timestamp - line.timestamp < Lifetime

\* C10, amended: for clients that do not know the shared secret, whenever
\* the guard lets a request through as u, u is a key of the credential store
\* and a /login of u succeeded less than one token lifetime before that
\* verification; a 200 of /protected is the answer to such a request and
\* names that u.
C10_LoginWithinLifetimeOfVerification ==
    [][ /\ \A r \in Slots :
               (request[r].pc = "idle" /\ request'[r].pc = "handler")
                   => /\ request'[r].username.str \in DOMAIN USERS
                      /\ \E line \in log :
                             /\ line.username = request'[r].username.str
                             /\ line.timestamp <= clock
                             /\ clock - line.timestamp < Lifetime
        /\ (last'.route = "/protected" /\ last'.status = 200 /\ last' # last)
               => \E r \in Slots :
                      /\ request[r].pc = "handler" /\ request'[r].pc = "idle"
                      /\ request[r].username = JStr(last'.json.username)
      ]_vars

C10_Witness ==
    /\ last.route = "/protected" /\ last.status = 200
    /\ \A line \in log :
           line.username = last.json.username
               => last.json.timestamp - line.timestamp >= Lifetime

====
